---- MODULE Spec2Model ----
(***************************************************************************)
(* Model of the Quicknode RPC node (nodes/QuicknodeRpc/QuicknodeRpc.node.ts). *)
(* A JavaScript string that the code inspects character by character      *)
(* (regular expressions, parseInt, JSON.parse) is a sequence of one-       *)
(* character strings; a string the code only copies is a TLA+ string.      *)
(***************************************************************************)
EXTENDS Integers, Sequences, FiniteSets, TLC

(* ------------------------------------------------------------------ *)
(* Characters and numbers                                              *)
(* ------------------------------------------------------------------ *)

\* the digits Number.prototype.toString(16) writes, in order of value
HexChars == <<"0","1","2","3","4","5","6","7","8","9","a","b","c","d","e","f">>

\* the class \d of a regular expression without the u flag
DecDigitChars == {"0","1","2","3","4","5","6","7","8","9"}

\* the class [a-fA-F0-9]
HexDigitChars == DecDigitChars \cup {"a","b","c","d","e","f","A","B","C","D","E","F"}

\* the characters parseInt skips before the number (StrWhiteSpaceChar; the
\* inputs of the model only ever hold a space)
WhiteSpaceChars == {" "}

DigitValue(c) == (CHOOSE k \in 1..10 : HexChars[k] = c) - 1

StartsWith(s, p) == Len(s) >= Len(p) /\ SubSeq(s, 1, Len(p)) = p

Drop(s, n) == SubSeq(s, n + 1, Len(s))

\* n copies of the character c
Rep(c, n) == [k \in 1..n |-> c]

\* e, once the values of the tuple v have been evaluated in their order:
\* a definition is evaluated where it is first used, and a chain of
\* definitions that use one another is evaluated here, not inside e
Strict(v, e) == IF v = v THEN e ELSE e

\* IEEE-754 binary64: the width of the significand of a Number
DoubleMantissaBits == 53

\* A natural number of any size is the little-endian sequence of its base-16
\* digits (<<>> is zero).  h * m + a: as many digits as h has and the carry
\* out of them, the first half of the digits handing its carry to the second
RECURSIVE MulAddCarry(_, _, _)
MulAddCarry(h, m, a) ==
  IF Len(h) = 0 THEN [d |-> <<>>, c |-> a]
  ELSE IF Len(h) = 1 THEN [d |-> <<(h[1] * m + a) % 16>>, c |-> (h[1] * m + a) \div 16]
  ELSE LET k  == Len(h) \div 2
           lo == MulAddCarry(SubSeq(h, 1, k), m, a)
           hi == MulAddCarry(SubSeq(h, k + 1, Len(h)), m, lo.c)
       IN  [d |-> lo.d \o hi.d, c |-> hi.c]

\* the digits of a carry
RECURSIVE CarryDigits(_)
CarryDigits(c) == IF c = 0 THEN <<>> ELSE <<c % 16>> \o CarryDigits(c \div 16)

\* h * m + a
MulAdd(h, m, a) ==
  LET x == MulAddCarry(h, m, a)
  IN  x.d \o CarryDigits(x.c)

\* the mathematical value of a sequence of decimal digit characters, after
\* the digits whose value is acc: the first half of s, then the second
RECURSIVE DecValue(_, _)
DecValue(acc, s) ==
  IF Len(s) = 0 THEN acc
  ELSE IF Len(s) = 1 THEN MulAdd(acc, 10, DigitValue(s[1]))
  ELSE LET k == Len(s) \div 2
           a == DecValue(acc, SubSeq(s, 1, k))
       IN  Strict(<<a>>, DecValue(a, SubSeq(s, k + 1, Len(s))))

NibbleBits(d) == << (d \div 8) % 2, (d \div 4) % 2, (d \div 2) % 2, d % 2 >>

\* s without the elements c it begins with
DropLeading(s, c) ==
  IF \A k \in 1..Len(s) : s[k] = c THEN <<>>
  ELSE SubSeq(s, CHOOSE k \in 1..Len(s) : s[k] # c /\ \A j \in 1..(k - 1) : s[j] = c, Len(s))

StripZeros(b) == DropLeading(b, 0)

\* most significant bit first, no leading zero bit (<<>> is zero)
BitsMsb(h) ==
  <<>> \o [k \in 1..(4 * Len(h)) |->
            NibbleBits(h[Len(h) - ((k - 1) \div 4)])[((k - 1) % 4) + 1]]

ToBits(h) == StripZeros(BitsMsb(h))

\* b + 1 on a bit sequence, most significant bit first
IncBits(b) ==
  IF \A k \in 1..Len(b) : b[k] = 1 THEN <<1>> \o Rep(0, Len(b))
  ELSE LET z == CHOOSE k \in 1..Len(b) : b[k] = 0 /\ \A j \in (k + 1)..Len(b) : b[j] = 1
       IN  SubSeq(b, 1, z - 1) \o <<1>> \o Rep(0, Len(b) - z)

\* The Number nearest to an integer (round to nearest, ties to even): what
\* parseInt returns for the integer its digits spell.
RoundToDouble(b) ==
  IF Len(b) <= DoubleMantissaBits THEN b
  ELSE LET m      == SubSeq(b, 1, DoubleMantissaBits)
           rest   == SubSeq(b, DoubleMantissaBits + 1, Len(b))
           sticky == \E k \in 2..Len(rest) : rest[k] = 1
           up     == rest[1] = 1 /\ (sticky \/ m[DoubleMantissaBits] = 1)
       IN  (IF up THEN IncBits(m) ELSE m) \o Rep(0, Len(rest))

\* the base-16 digits of an integral Number, as toString(16) writes them
HexOfBits(b) ==
  LET p == Rep(0, (4 - (Len(b) % 4)) % 4) \o b
  IN  <<>> \o [k \in 1..(Len(p) \div 4) |->
                HexChars[8 * p[4 * k - 3] + 4 * p[4 * k - 2] + 2 * p[4 * k - 1] + p[4 * k] + 1]]

\* the length of the longest prefix of s made of elements of set
RunLength(s, set) ==
  IF \A k \in 1..Len(s) : s[k] \in set THEN Len(s)
  ELSE (CHOOSE k \in 1..Len(s) : s[k] \notin set /\ \A j \in 1..(k - 1) : s[j] \in set) - 1

SkipWhile(s, set) == SubSeq(s, RunLength(s, set) + 1, Len(s))

TakeWhile(s, set) == SubSeq(s, 1, RunLength(s, set))

\* parseInt(s, 10): leading white space, an optional sign, then the longest
\* run of decimal digits; NaN when that run is empty.  The result is a Number.
ParseInt10(s) ==
  LET t      == SkipWhile(s, WhiteSpaceChars)
      signed == t # <<>> /\ Head(t) \in {"+", "-"}
      u      == IF signed THEN Tail(t) ELSE t
      digits == TakeWhile(u, DecDigitChars)
  IN  IF digits = <<>> THEN [nan |-> TRUE, neg |-> FALSE, bits |-> <<>>]
      ELSE [nan  |-> FALSE,
            neg  |-> signed /\ Head(t) = "-",
            bits |-> RoundToDouble(ToBits(DecValue(<<>>, digits)))]

\* Number.prototype.toString(16) of a result of parseInt
NumberToString16(x) ==
  IF x.nan THEN <<"N","a","N">>
  ELSE IF x.bits = <<>> THEN <<"0">>
  ELSE (IF x.neg THEN <<"-">> ELSE <<>>) \o HexOfBits(x.bits)

(* ------------------------------------------------------------------ *)
(* The arithmetic of BigInt and of the division and toFixed of Numbers. *)
(* An integer of any size is its bits, most significant first, without  *)
(* a leading zero (<<>> is zero), or its base-16 digits.                 *)
(* ------------------------------------------------------------------ *)

Reverse(s) == <<>> \o [k \in 1..Len(s) |-> s[Len(s) + 1 - k]]

\* the bits of base-16 digits written most significant first
BitsOfNibbles(h) ==
  StripZeros(<<>> \o [k \in 1..(4 * Len(h)) |->
                          NibbleBits(h[(k + 3) \div 4])[((k - 1) % 4) + 1]])

\* the value of a hexadecimal digit of either case
HexDigitValue(c) ==
  IF c \in DecDigitChars THEN DigitValue(c)
  ELSE CASE c \in {"a", "A"} -> 10 [] c \in {"b", "B"} -> 11 [] c \in {"c", "C"} -> 12
         [] c \in {"d", "D"} -> 13 [] c \in {"e", "E"} -> 14 [] c \in {"f", "F"} -> 15

\* the value of a sequence of hexadecimal digit characters
HexToBits(s) == BitsOfNibbles([k \in 1..Len(s) |-> HexDigitValue(s[k])])

\* 2^0 .. 2^15, and 10^0 .. 10^4
PowersOfTwo == <<1, 2, 4, 8, 16, 32, 64, 128, 256, 512, 1024, 2048, 4096, 8192, 16384, 32768>>
PowersOfTen == <<1, 10, 100, 1000, 10000>>

\* For division and multiplication an integer is its words, the digits of
\* base 65536.  The words of a bit sequence, most significant first:
WordsOfBits(b) ==
  LET p         == Rep(0, (16 - (Len(b) % 16)) % 16) \o b
      Four(o)   == 8 * p[o + 1] + 4 * p[o + 2] + 2 * p[o + 3] + p[o + 4]
  IN  <<>> \o [k \in 1..(Len(p) \div 16) |->
                  4096 * Four(16 * k - 16) + 256 * Four(16 * k - 12)
                    + 16 * Four(16 * k - 8) + Four(16 * k - 4)]

\* the bits of words written most significant first
BitsOfWords(w) ==
  StripZeros(<<>> \o [k \in 1..(16 * Len(w)) |->
                          (w[(k + 15) \div 16] \div PowersOfTwo[16 - ((k - 1) % 16)]) % 2])

\* (r * 65536^Len(w) + w) divided by d <= 10^4, w most significant first:
\* the words of the quotient and the remainder.  The division of the first
\* half of the words hands its remainder to that of the second half.
RECURSIVE DivSmall(_, _, _)
DivSmall(w, d, r) ==
  IF Len(w) = 0 THEN [q |-> <<>>, r |-> r]
  ELSE IF Len(w) = 1
    THEN [q |-> <<(r * 65536 + w[1]) \div d>>, r |-> (r * 65536 + w[1]) % d]
  ELSE LET h == Len(w) \div 2
           a == DivSmall(SubSeq(w, 1, h), d, r)
           b == DivSmall(SubSeq(w, h + 1, Len(w)), d, a.r)
       IN  [q |-> a.q \o b.q, r |-> b.r]

\* w * m + a for m <= 10^4, w least significant word first: as many words as
\* w has, and the carry out of them
RECURSIVE MulCarry(_, _, _)
MulCarry(w, m, a) ==
  IF Len(w) = 0 THEN [w |-> <<>>, c |-> a]
  ELSE IF Len(w) = 1
    THEN [w |-> <<(w[1] * m + a) % 65536>>, c |-> (w[1] * m + a) \div 65536]
  ELSE LET h  == Len(w) \div 2
           lo == MulCarry(SubSeq(w, 1, h), m, a)
           hi == MulCarry(SubSeq(w, h + 1, Len(w)), m, lo.c)
       IN  [w |-> lo.w \o hi.w, c |-> hi.c]

MulSmall(w, m, a) ==
  LET x == MulCarry(w, m, a)
  IN  IF x.c = 0 THEN x.w ELSE x.w \o <<x.c>>

\* w divided by 10^f, at most four digits at a time: the quotient, and
\* whether the division is exact (w most significant first)
RECURSIVE DivPow10(_, _)
DivPow10(w, f) ==
  IF f <= 4
    THEN LET dm == DivSmall(w, PowersOfTen[f + 1], 0)
         IN  [q |-> dm.q, exact |-> dm.r = 0]
    ELSE LET a == DivPow10(w, f \div 2)
             b == DivPow10(a.q, f - (f \div 2))
         IN  Strict(<<w, a, b>>, [q |-> b.q, exact |-> a.exact /\ b.exact])

\* w * 10^f, w least significant first
RECURSIVE MulPow10(_, _)
MulPow10(w, f) ==
  IF f <= 4 THEN MulSmall(w, PowersOfTen[f + 1], 0)
  ELSE LET a == MulPow10(w, f \div 2)
       IN  Strict(<<w, a>>, MulPow10(a, f - (f \div 2)))

\* the four decimal digits of n < 10^4
FourDigits(n) ==
  << HexChars[(n \div 1000) + 1], HexChars[((n \div 100) % 10) + 1],
     HexChars[((n \div 10) % 10) + 1], HexChars[(n % 10) + 1] >>

\* the decimal digits of words (most significant first), in fours
RECURSIVE DecimalOfWords(_)
DecimalOfWords(w) ==
  IF \A k \in 1..Len(w) : w[k] = 0 THEN <<>>
  ELSE LET dm == DivSmall(w, 10000, 0)
       IN  Strict(<<dm>>, DecimalOfWords(dm.q) \o FourDigits(dm.r))

\* the decimal digits of an integer, as BigInt.prototype.toString writes them
BitsToDecimal(b) ==
  IF b = <<>> THEN <<"0">>
  ELSE LET w == WordsOfBits(b)
           d == DecimalOfWords(w)
       IN  Strict(<<b, w, d>>, DropLeading(d, "0"))

\* the number of bits of 10^f
Pow10Length(f) == Len(BitsOfWords(Reverse(MulPow10(<<1>>, f))))

\* A Number that is not negative is [m, e]: m * 2^e, m of at most
\* DoubleMantissaBits bits (zero is m = <<>>).  d / 10^f for an integral Number
\* d, correctly rounded (round to nearest, ties to even).
DoubleDivide(d, f) ==
  IF d = <<>> THEN [m |-> <<>>, e |-> 0]
  ELSE LET len  == Pow10Length(f)
           want == DoubleMantissaBits + 2 + len - Len(d)
           s    == IF want > 0 THEN want ELSE 0
           w    == WordsOfBits(d \o Rep(0, s))
           dm   == DivPow10(w, f)
           q    == BitsOfWords(dm.q)
           top  == SubSeq(q, 1, DoubleMantissaBits)
           rest == SubSeq(q, DoubleMantissaBits + 1, Len(q))
           sticky == ~dm.exact \/ \E k \in 2..Len(rest) : rest[k] = 1
           up   == rest[1] = 1 /\ (sticky \/ top[DoubleMantissaBits] = 1)
       IN  Strict(<<len, w, dm, q, top, rest>>,
             [m |-> IF up THEN IncBits(top) ELSE top, e |-> Len(rest) - s])

\* Number.prototype.toFixed(f) of a Number below 10^21: the integer n nearest
\* to x * 10^f (the larger of two), written with f digits after the point
ToFixed(x, f) ==
  LET v    == Reverse(WordsOfBits(x.m))
      w    == MulPow10(v, f)
      p    == BitsOfWords(Reverse(w))
      k    == -x.e
      top  == IF Len(p) > k THEN SubSeq(p, 1, Len(p) - k) ELSE <<>>
      half == IF k >= 1 /\ Len(p) >= k THEN p[Len(p) - k + 1] ELSE 0
      n    == IF k <= 0 THEN (IF p = <<>> THEN <<>> ELSE p \o Rep(0, x.e))
              ELSE IF half = 1 THEN IncBits(top) ELSE top
      d    == BitsToDecimal(n)
      padded == IF Len(d) <= f THEN Rep("0", f + 1 - Len(d)) \o d ELSE d
  IN  Strict(<<v, w, p, n, d, padded>>,
        SubSeq(padded, 1, Len(padded) - f) \o <<".">>
          \o SubSeq(padded, Len(padded) - f + 1, Len(padded)))

\* (Number(wei) / 10^f).toFixed(f)
ScaledFixed(wei, f) ==
  LET d == RoundToDouble(wei)
      x == DoubleDivide(d, f)
  IN  Strict(<<wei, d, x>>, ToFixed(x, f))

NotANumber == [nan |-> TRUE, neg |-> FALSE, bits |-> <<>>]

\* parseInt(s, 16): leading white space, an optional sign, an optional 0x or
\* 0X, then the longest run of hexadecimal digits; NaN when that run is empty
ParseInt16(s) ==
  LET t      == SkipWhile(s, WhiteSpaceChars)
      signed == t # <<>> /\ Head(t) \in {"+", "-"}
      u      == IF signed THEN Tail(t) ELSE t
      v      == IF StartsWith(u, <<"0","x">>) \/ StartsWith(u, <<"0","X">>) THEN Drop(u, 2) ELSE u
      digits == TakeWhile(v, HexDigitChars)
      bits   == RoundToDouble(HexToBits(digits))
  IN  IF digits = <<>> THEN NotANumber
      ELSE [nan |-> FALSE, neg |-> signed /\ Head(t) = "-" /\ bits # <<>>, bits |-> bits]

\* s without the white space at its ends
Trim(s) == Reverse(SkipWhile(Reverse(SkipWhile(s, WhiteSpaceChars)), WhiteSpaceChars))

\* the prefixed literal t is 0, one of the two letters, then digits of the set only
IsPrefixed(t, letters, set) ==
  /\ Len(t) > 2 /\ t[1] = "0" /\ t[2] \in letters
  /\ \A k \in 3..Len(t) : t[k] \in set

\* the bits of octal digit characters
OctalToBits(s) ==
  StripZeros([k \in 1..(3 * Len(s)) |-> NibbleBits(DigitValue(s[(k + 2) \div 3]))[((k - 1) % 3) + 2]])

\* BigInt(s) of a string (StringToBigInt): white space is trimmed, the empty
\* string is 0n, then a 0x, 0o or 0b literal or a signed run of decimal
\* digits; anything else is a SyntaxError (ok is FALSE)
StringToBigInt(s) ==
  LET t      == Trim(s)
      signed == t # <<>> /\ Head(t) \in {"+", "-"}
      u      == IF signed THEN Tail(t) ELSE t
      bits   == ToBits(DecValue(<<>>, u))
      Unsigned(b) == [ok |-> TRUE, neg |-> FALSE, bits |-> b]
  IN  IF t = <<>> THEN Unsigned(<<>>)
      ELSE IF IsPrefixed(t, {"x", "X"}, HexDigitChars) THEN Unsigned(HexToBits(Drop(t, 2)))
      ELSE IF IsPrefixed(t, {"o", "O"}, {"0","1","2","3","4","5","6","7"})
        THEN Unsigned(OctalToBits(Drop(t, 2)))
      ELSE IF IsPrefixed(t, {"b", "B"}, {"0", "1"})
        THEN Unsigned(StripZeros([k \in 1..(Len(t) - 2) |-> DigitValue(t[k + 2])]))
      ELSE IF u # <<>> /\ \A k \in 1..Len(u) : u[k] \in DecDigitChars
        THEN [ok |-> TRUE, neg |-> Head(t) = "-" /\ bits # <<>>, bits |-> bits]
      ELSE [ok |-> FALSE, neg |-> FALSE, bits |-> <<>>]

\* BigInt.prototype.toString()
BigIntToString(n) == (IF n.neg THEN <<"-">> ELSE <<>>) \o BitsToDecimal(n.bits)

\* (Number(n) / 10^f).toFixed(f) of a BigInt n
BigIntScaled(n, f) == (IF n.neg THEN <<"-">> ELSE <<>>) \o ScaledFixed(n.bits, f)

(* ------------------------------------------------------------------ *)
(* Validators and the block tag                                        *)
(* ------------------------------------------------------------------ *)

\* /^0x[a-fA-F0-9]{n}$/.test(s)
IsHexOfLength(s, n) ==
  /\ Len(s) = n + 2
  /\ s[1] = "0"
  /\ s[2] = "x"
  /\ \A k \in 3..(n + 2) : s[k] \in HexDigitChars

\* mutant: only the 0x prefix is tested
isValidAddressPrefixOnly(address) == StartsWith(address, <<"0","x">>)

isValidAddress(address) == IsHexOfLength(address, 40)

isValidTxHash(hash) == IsHexOfLength(hash, 64)

Latest == <<"l","a","t","e","s","t">>
Earliest == <<"e","a","r","l","i","e","s","t">>
Pending == <<"p","e","n","d","i","n","g">>
Safe == <<"s","a","f","e">>
Finalized == <<"f","i","n","a","l","i","z","e","d">>

SymbolicTags == {Latest, Earliest, Pending, Safe, Finalized}

\* /^\d+$/.test(s)
IsDecimal(s) == s # <<>> /\ \A k \in 1..Len(s) : s[k] \in DecDigitChars

toBlockTag(block) ==
  IF block \in SymbolicTags THEN block
  ELSE IF IsDecimal(block) THEN <<"0","x">> \o NumberToString16(ParseInt10(block))
  ELSE block

(* ------------------------------------------------------------------ *)
(* JSON.parse                                                          *)
(* ------------------------------------------------------------------ *)

\* A parsed JSON value is [t |-> type, v |-> content]: an array holds the
\* sequence of its values, an object the sequence of its <<key, value>> pairs,
\* a string its characters, a number its lexeme, a literal its name.
JsonFail == [ok |-> FALSE, val |-> [t |-> "none", v |-> <<>>], rest |-> <<>>]

JsonOk(t, v, rest) == [ok |-> TRUE, val |-> [t |-> t, v |-> v], rest |-> rest]

SkipWs(s) == SkipWhile(s, WhiteSpaceChars)

TakeUntil(s, stop) ==
  IF \A k \in 1..Len(s) : s[k] \notin stop THEN s
  ELSE SubSeq(s, 1, (CHOOSE k \in 1..Len(s) : s[k] \in stop /\ \A j \in 1..(k - 1) : s[j] \notin stop) - 1)

\* a string token, s starting after the opening quote (the grammar without
\* escape sequences: a backslash or a missing closing quote is a syntax error)
JsonString(s) ==
  LET body == TakeUntil(s, {"\"", "\\"})
      rest == Drop(s, Len(body))
  IN  IF rest # <<>> /\ Head(rest) = "\"" THEN JsonOk("string", body, Tail(rest))
      ELSE JsonFail

\* a number token: -? (0 | [1-9][0-9]*), the integers of the JSON grammar
JsonNumber(s) ==
  LET neg    == s # <<>> /\ Head(s) = "-"
      u      == IF neg THEN Tail(s) ELSE s
      digits == IF u # <<>> /\ Head(u) = "0" THEN <<"0">> ELSE TakeWhile(u, DecDigitChars)
  IN  IF digits = <<>> THEN JsonFail
      ELSE JsonOk("number", (IF neg THEN <<"-">> ELSE <<>>) \o digits, Drop(u, Len(digits)))

RECURSIVE JsonValue(_)
RECURSIVE JsonElements(_, _)
RECURSIVE JsonMembers(_, _)

JsonValue(s) ==
  LET t == SkipWs(s)
  IN  IF t = <<>> THEN JsonFail
      ELSE IF Head(t) = "[" THEN
        (IF StartsWith(SkipWs(Tail(t)), <<"]">>)
           THEN JsonOk("array", <<>>, Tail(SkipWs(Tail(t))))
           ELSE JsonElements(Tail(t), <<>>))
      ELSE IF Head(t) = "{" THEN
        (IF StartsWith(SkipWs(Tail(t)), <<"}">>)
           THEN JsonOk("object", <<>>, Tail(SkipWs(Tail(t))))
           ELSE JsonMembers(Tail(t), <<>>))
      ELSE IF Head(t) = "\"" THEN JsonString(Tail(t))
      ELSE IF Head(t) \in DecDigitChars \cup {"-"} THEN JsonNumber(t)
      ELSE IF StartsWith(t, <<"t","r","u","e">>) THEN JsonOk("true", <<>>, Drop(t, 4))
      ELSE IF StartsWith(t, <<"f","a","l","s","e">>) THEN JsonOk("false", <<>>, Drop(t, 5))
      ELSE IF StartsWith(t, <<"n","u","l","l">>) THEN JsonOk("null", <<>>, Drop(t, 4))
      ELSE JsonFail

\* value (, value)* ] with the values before s in acc
JsonElements(s, acc) ==
  LET r == JsonValue(s)
      u == SkipWs(r.rest)
  IN  IF ~r.ok \/ u = <<>> THEN JsonFail
      ELSE IF Head(u) = "," THEN JsonElements(Tail(u), Append(acc, r.val))
      ELSE IF Head(u) = "]" THEN JsonOk("array", Append(acc, r.val), Tail(u))
      ELSE JsonFail

\* "key" : value (, "key" : value)* } with the members before s in acc
JsonMembers(s, acc) ==
  LET t == SkipWs(s)
      k == IF t # <<>> /\ Head(t) = "\"" THEN JsonString(Tail(t)) ELSE JsonFail
      c == SkipWs(k.rest)
      r == IF k.ok /\ c # <<>> /\ Head(c) = ":" THEN JsonValue(Tail(c)) ELSE JsonFail
      u == SkipWs(r.rest)
  IN  IF ~r.ok \/ u = <<>> THEN JsonFail
      ELSE IF Head(u) = "," THEN JsonMembers(Tail(u), Append(acc, <<k.val.v, r.val>>))
      ELSE IF Head(u) = "}" THEN JsonOk("object", Append(acc, <<k.val.v, r.val>>), Tail(u))
      ELSE JsonFail

\* JSON.parse(text): the value, or a SyntaxError when the text is not exactly
\* one JSON value
JsonParse(text) ==
  LET r == JsonValue(text)
  IN  IF r.ok /\ SkipWs(r.rest) = <<>> THEN [ok |-> TRUE, val |-> r.val]
      ELSE [ok |-> FALSE, val |-> JsonFail.val]

\* Array.isArray
IsArray(val) == val.t = "array"

(* ------------------------------------------------------------------ *)
(* The request of one item                                             *)
(* ------------------------------------------------------------------ *)

\* new NodeOperationError(node, `${text}${raw}${tail}`, { itemIndex: i }); raw
\* is the offending value as the caller gave it
OperationError(text, raw, tail, i) ==
  [ok      |-> FALSE,
   error   |-> [type |-> "NodeOperationError", kind |-> "validation",
                message |-> [text |-> text, raw |-> raw, tail |-> tail],
                itemIndex |-> i]]

Built(method, params) == [ok |-> TRUE, method |-> method, params |-> params]

AddressTail == ". Must be 42 characters starting with 0x"

HashTail == ". Must be 66 characters starting with 0x"

\* truthiness of a string
NonEmpty(s) == s # <<>>

\* a parameter the item does not set (no character sequence equals it)
Unset == <<"<unset>">>

\* this.getNodeParameter(name, i, fallback)
getNodeParameter(v, fallback) == IF v = Unset THEN fallback ELSE v

\* const txObject = { to }; if (from) txObject.from = from; if (data)
\* txObject.data = data; and, with withValue, the value of estimateGas
TxObject(to, from, data, value, withValue) ==
  LET hasValue == withValue /\ NonEmpty(value) /\ value # <<"0">>
      keys == {"to"} \cup (IF NonEmpty(from) THEN {"from"} ELSE {})
                     \cup (IF NonEmpty(data) THEN {"data"} ELSE {})
                     \cup (IF hasValue THEN {"value"} ELSE {})
  IN  [k \in keys |->
         CASE k = "to"    -> to
           [] k = "from"  -> from
           [] k = "data"  -> data
           [] k = "value" -> IF StartsWith(value, <<"0","x">>) THEN value
                             ELSE <<"0","x">> \o NumberToString16(ParseInt10(value))]

\* mutant: the block is sent as the caller wrote it
AddressAndBlockRawBlock(method, item, i) ==
  IF ~isValidAddress(item.address)
    THEN OperationError("Invalid Ethereum address: ", item.address, AddressTail, i)
    ELSE Built(method, <<item.address, getNodeParameter(item.block, Latest)>>)

\* case 'getBalance', 'getTransactionCount', 'getCode'
AddressAndBlock(method, item, i) ==
  IF ~isValidAddress(item.address)
    THEN OperationError("Invalid Ethereum address: ", item.address, AddressTail, i)
    ELSE Built(method, <<item.address, toBlockTag(getNodeParameter(item.block, Latest))>>)

\* case 'getTransaction', 'getTransactionReceipt'
ByTxHash(method, item, i) ==
  IF ~isValidTxHash(item.txHash)
    THEN OperationError("Invalid transaction hash: ", item.txHash, HashTail, i)
    ELSE Built(method, <<item.txHash>>)

\* mutant: whatever has 66 characters is taken for a hash
GetBlockByLength(item) ==
  IF Len(item.blockIdentifier) = 66
    THEN Built("eth_getBlockByHash", <<item.blockIdentifier, item.fullTransactions>>)
    ELSE Built("eth_getBlockByNumber",
               <<toBlockTag(item.blockIdentifier), item.fullTransactions>>)

\* case 'getBlock'
GetBlock(item) ==
  IF IsHexOfLength(item.blockIdentifier, 64)
    THEN Built("eth_getBlockByHash", <<item.blockIdentifier, item.fullTransactions>>)
    ELSE Built("eth_getBlockByNumber",
               <<toBlockTag(item.blockIdentifier), item.fullTransactions>>)

\* case 'estimateGas' (withValue) and case 'call'
TxCall(method, item, i, withValue) ==
  LET from  == getNodeParameter(item.from, <<>>)
      data  == getNodeParameter(item.data, <<>>)
      value == getNodeParameter(item.value, <<"0">>)
      block == getNodeParameter(item.block, Latest)
  IN  IF ~isValidAddress(item.to)
        THEN OperationError("Invalid 'to' address: ", item.to, AddressTail, i)
      ELSE IF NonEmpty(from) /\ ~isValidAddress(from)
        THEN OperationError("Invalid 'from' address: ", from, AddressTail, i)
      ELSE LET tx == TxObject(item.to, from, data, value, withValue)
           IN  Built(method, IF withValue THEN <<tx>> ELSE <<tx, toBlockTag(block)>>)

\* mutant: any JSON value is taken for the params
CustomRpcAnyJson(item, i) ==
  LET parsed == JsonParse(getNodeParameter(item.rpcParams, <<"[","]">>))
  IN  IF ~parsed.ok
        THEN OperationError("Invalid JSON parameters: ", <<>>, "<SyntaxError message>", i)
      ELSE Built(item.rpcMethod, parsed.val.v)

\* case 'customRpc': the message of the error is that of the SyntaxError of
\* JSON.parse, or of the Error thrown for a value that is no array
CustomRpc(item, i) ==
  LET parsed == JsonParse(getNodeParameter(item.rpcParams, <<"[","]">>))
  IN  IF ~parsed.ok
        THEN OperationError("Invalid JSON parameters: ", <<>>, "<SyntaxError message>", i)
      ELSE IF ~IsArray(parsed.val)
        THEN OperationError("Invalid JSON parameters: ", <<>>, "Parameters must be a JSON array", i)
      ELSE Built(item.rpcMethod, parsed.val.v)

\* switch (operation): the method and the params of item i, or the error thrown
\* before any request
BuildRequest(item, i) ==
  CASE item.operation = "getBalance" -> AddressAndBlock("eth_getBalance", item, i)
    [] item.operation = "getBlockNumber" -> Built("eth_blockNumber", <<>>)
    [] item.operation = "getBlock" -> GetBlock(item)
    [] item.operation = "getTransaction" -> ByTxHash("eth_getTransactionByHash", item, i)
    [] item.operation = "getTransactionReceipt" -> ByTxHash("eth_getTransactionReceipt", item, i)
    [] item.operation = "getTransactionCount" -> AddressAndBlock("eth_getTransactionCount", item, i)
    [] item.operation = "getCode" -> AddressAndBlock("eth_getCode", item, i)
    [] item.operation = "getGasPrice" -> Built("eth_gasPrice", <<>>)
    [] item.operation = "estimateGas" -> TxCall("eth_estimateGas", item, i, TRUE)
    [] item.operation = "call" -> TxCall("eth_call", item, i, FALSE)
    [] item.operation = "customRpc" -> CustomRpc(item, i)
    [] OTHER -> OperationError("Unknown operation: ", <<item.operation>>, "", i)

(* ------------------------------------------------------------------ *)
(* The response of the endpoint                                        *)
(* ------------------------------------------------------------------ *)

\* A value of the error field of a response body: its type, its literal, and
\* for an object its message and code ("" with hasMessage FALSE: no message).
ErrorValue(t, v, hasMessage, message, code) ==
  [t |-> t, v |-> v, hasMessage |-> hasMessage, message |-> message, code |-> code]

\* ToBoolean of an error field
ErrorTruthy(e) ==
  \/ e.t = "object"
  \/ e.t = "string" /\ e.v # ""
  \/ e.t = "number" /\ e.v \notin {"0", "NaN"}
  \/ e.t = "boolean" /\ e.v = "true"

\* A value of the result field: its type and, for a string, its characters.
ResultValue(t, v) == [t |-> t, v |-> v]

\* ToBoolean of a result field
ResultTruthy(r) == r.t = "object" \/ (r.t = "string" /\ r.v # <<>>)

\* String(result) of a result that is an object (a plain object, not an array)
ObjectString == <<"[","o","b","j","e","c","t"," ","O","b","j","e","c","t","]">>

\* the string parseInt and BigInt convert a truthy result to
ResultText(r) == IF r.t = "string" THEN r.v ELSE ObjectString

\* BigInt(result) returns (it throws a SyntaxError otherwise)
BigIntParses(r) == StringToBigInt(ResultText(r)).ok

\* What this.helpers.httpRequest does with one request: it rejects, or it
\* resolves to the parsed body, an object or (an empty body) undefined.
HttpOutcome(rejects, isObject, error, result) ==
  [rejects |-> rejects, isObject |-> isObject, error |-> error, result |-> result]

NoHttpOutcome ==
  HttpOutcome(FALSE, FALSE, ErrorValue("none", "", FALSE, "", ""), ResultValue("none", <<>>))

Message(text) == [text |-> text, raw |-> <<>>, tail |-> ""]

NoError == [type |-> "", kind |-> "", message |-> Message(""), itemIndex |-> -1]

Thrown(type, kind, text, i) ==
  [type |-> type, kind |-> kind, message |-> Message(text), itemIndex |-> i]

\* what the code after the await throws for item i, NoError when it throws nothing
ResponseError(operation, response, i) ==
  IF response.rejects
    THEN Thrown("Error", "transport", "<transport failure>", -1)
  ELSE IF ~response.isObject
    THEN Thrown("TypeError", "decode", "<cannot read properties of undefined>", -1)
  ELSE IF ErrorTruthy(response.error)
    THEN Thrown("NodeApiError", "rpc",
                IF response.error.hasMessage /\ response.error.message # ""
                  THEN response.error.message ELSE "RPC Error", i)
  ELSE IF /\ operation \in {"getBalance", "getGasPrice"}
          /\ ResultTruthy(response.result)
          /\ ~BigIntParses(response.result)
    THEN Thrown("SyntaxError", "decode", "<cannot convert to a BigInt>", -1)
  ELSE NoError

\* mutant: the derived fields follow the JSON-RPC method, not the operation
ResultDataByMethod(operation, response, method, network) ==
  LET r    == response.result
      text == ResultText(r)
      wei  == StringToBigInt(text)
  IN  CASE method = "eth_getBalance" /\ ResultTruthy(r) ->
             [result |-> r, method |-> method, network |-> network,
              balanceWei |-> BigIntToString(wei), balanceEth |-> BigIntScaled(wei, 18)]
        [] method = "eth_blockNumber" /\ ResultTruthy(r) ->
             [result |-> r, method |-> method, network |-> network,
              blockNumberDecimal |-> ParseInt16(text)]
        [] method = "eth_gasPrice" /\ ResultTruthy(r) ->
             [result |-> r, method |-> method, network |-> network,
              gasPriceWei |-> BigIntToString(wei), gasPriceGwei |-> BigIntScaled(wei, 9)]
        [] method = "eth_getTransactionCount" /\ ResultTruthy(r) ->
             [result |-> r, method |-> method, network |-> network,
              transactionCountDecimal |-> ParseInt16(text)]
        [] method = "eth_estimateGas" /\ ResultTruthy(r) ->
             [result |-> r, method |-> method, network |-> network,
              gasEstimateDecimal |-> ParseInt16(text)]
        [] OTHER -> [result |-> r, method |-> method, network |-> network]

\* const resultData = { result: response.result, method, network: credentials.network }
\* and the fields the five if statements add to it.  The statements name
\* different operations, so at most one of them acts.  Evaluated only when
\* ResponseError is NoError: BigInt(result) has returned.
ResultData(operation, response, method, network) ==
  LET r    == response.result
      text == ResultText(r)
      wei  == StringToBigInt(text)
  IN  CASE operation = "getBalance" /\ ResultTruthy(r) ->
             [result |-> r, method |-> method, network |-> network,
              balanceWei |-> BigIntToString(wei), balanceEth |-> BigIntScaled(wei, 18)]
        [] operation = "getBlockNumber" /\ ResultTruthy(r) ->
             [result |-> r, method |-> method, network |-> network,
              blockNumberDecimal |-> ParseInt16(text)]
        [] operation = "getGasPrice" /\ ResultTruthy(r) ->
             [result |-> r, method |-> method, network |-> network,
              gasPriceWei |-> BigIntToString(wei), gasPriceGwei |-> BigIntScaled(wei, 9)]
        [] operation = "getTransactionCount" /\ ResultTruthy(r) ->
             [result |-> r, method |-> method, network |-> network,
              transactionCountDecimal |-> ParseInt16(text)]
        [] operation = "estimateGas" /\ ResultTruthy(r) ->
             [result |-> r, method |-> method, network |-> network,
              gasEstimateDecimal |-> ParseInt16(text)]
        [] OTHER -> [result |-> r, method |-> method, network |-> network]

(* ------------------------------------------------------------------ *)
(* The inputs                                                          *)
(* ------------------------------------------------------------------ *)

\* the largest batch of the batch specification
MaxItems == 2

Str0x == <<"0","x">>

ValidAddress == Str0x \o <<"A","b","C">> \o Rep("1", 37)
LowerAddress == Str0x \o Rep("f", 40)
ShortAddress == Str0x \o Rep("a", 39)
LongAddress == Str0x \o Rep("a", 41)
NonHexAddress == Str0x \o <<"g">> \o Rep("a", 39)
BarePrefixAddress == Rep("0", 2) \o Rep("a", 40)

ValidHash == Str0x \o <<"D","e">> \o Rep("9", 62)
ShortHash == Str0x \o Rep("b", 63)

Addresses == {ValidAddress, LowerAddress, ShortAddress, LongAddress, NonHexAddress,
              BarePrefixAddress, <<>>}

Hashes == {ValidHash, ShortHash, ValidAddress, Rep("b", 66), <<>>}

Dec100 == <<"1","0","0">>
Hex0xabc == <<"0","x","a","b","c">>
\* 2^53 + 1, the first integer that is no Number
Dec2p53p1 == <<"9","0","0","7","1","9","9","2","5","4","7","4","0","9","9","3">>
Dec1e18 == <<"1">> \o Rep("0", 18)

Blocks == SymbolicTags \cup
          {Dec100, <<"1","2">>, <<"0","0","7">>, <<"0">>, Hex0xabc, <<>>,
           <<"L","a","t","e","s","t">>, <<"1","2","x">>, Dec2p53p1, Unset}

BlockIdentifiers == {ValidHash, ShortHash, Rep("b", 66), Latest, Dec100, Hex0xabc,
                     <<"n","o","n","e">>, <<>>}

Values == {Unset, <<>>, <<"0">>, <<"0","0">>, <<"0","x","0">>, Dec100, <<"0","x","6","4">>, Dec1e18}

Datas == {Unset, <<>>, Str0x \o <<"7","0","a","0","8","2","3","1">>}

RpcMethods == {"eth_getLogs", "", "eth_getBalance"}

ParamsGetLogs ==
  <<"[","{","\"","f","r","o","m","B","l","o","c","k","\"",":",
    "\"","l","a","t","e","s","t","\"","}","]">>

RpcParamTexts ==
  {<<"[","]">>, ParamsGetLogs, <<"[","\"","0","x","1","\"",","," ","t","r","u","e","]">>,
   <<"{","}">>, <<"4","2">>, <<"\"","a","\"">>, <<"t","r","u","e">>, <<"n","u","l","l">>,
   <<>>, <<"[","1",",","]">>, <<"[","]","]">>, <<"l","a","t","e","s","t">>, Unset}

\* the parameters the host resolves for an item; Unset where the code names a
\* fallback
DefaultItem ==
  [operation |-> "getBalance", address |-> <<>>, block |-> Unset,
   blockIdentifier |-> Latest, fullTransactions |-> FALSE, txHash |-> <<>>,
   to |-> <<>>, from |-> Unset, data |-> Unset, value |-> Unset,
   rpcMethod |-> "", rpcParams |-> Unset]

WithAddress(op, a, b) == [DefaultItem EXCEPT !.operation = op, !.address = a, !.block = b]

WithTx(op, to, from, data, value, b) ==
  [DefaultItem EXCEPT !.operation = op, !.to = to, !.from = from, !.data = data,
                      !.value = value, !.block = b]

AddressOps == {"getBalance", "getTransactionCount", "getCode"}

\* every item of the single-item specification
Items ==
  {WithAddress(op, a, b) : op \in AddressOps, a \in Addresses, b \in Blocks}
  \cup {[DefaultItem EXCEPT !.operation = op] : op \in {"getBlockNumber", "getGasPrice", "transfer", ""}}
  \cup {[DefaultItem EXCEPT !.operation = "getBlock", !.blockIdentifier = b, !.fullTransactions = f] :
          b \in BlockIdentifiers, f \in BOOLEAN}
  \cup {[DefaultItem EXCEPT !.operation = op, !.txHash = h] :
          op \in {"getTransaction", "getTransactionReceipt"}, h \in Hashes}
  \cup {WithTx("estimateGas", to, from, d, v, Latest) :
          to \in {ValidAddress, ShortAddress}, from \in {Unset, <<>>, LowerAddress, NonHexAddress},
          d \in Datas, v \in Values}
  \cup {WithTx("call", to, from, d, <<"0">>, b) :
          to \in {ValidAddress, <<>>}, from \in {<<>>, LowerAddress, LongAddress},
          d \in Datas, b \in {Unset, Dec100}}
  \cup {[DefaultItem EXCEPT !.operation = "customRpc", !.rpcMethod = m, !.rpcParams = t] :
          m \in RpcMethods, t \in RpcParamTexts}

\* the items of the batches: one that passes validation and one that fails it
\* for each kind of validation
BatchItems ==
  {WithAddress("getBalance", ValidAddress, Dec100),
   WithAddress("getBalance", ShortAddress, Latest),
   WithAddress("getTransactionCount", NonHexAddress, Latest),
   WithAddress("getCode", <<>>, Latest),
   [DefaultItem EXCEPT !.operation = "getBlockNumber"],
   [DefaultItem EXCEPT !.operation = "getTransaction", !.txHash = ShortHash],
   [DefaultItem EXCEPT !.operation = "getTransactionReceipt", !.txHash = ValidAddress],
   WithTx("estimateGas", ShortAddress, <<>>, <<>>, <<"0">>, Latest),
   WithTx("estimateGas", ValidAddress, NonHexAddress, <<>>, <<"0">>, Latest),
   WithTx("call", <<>>, <<>>, <<>>, <<"0">>, Latest),
   WithTx("call", ValidAddress, LongAddress, <<>>, <<"0">>, Latest),
   [DefaultItem EXCEPT !.operation = "customRpc", !.rpcMethod = "eth_getLogs", !.rpcParams = ParamsGetLogs],
   [DefaultItem EXCEPT !.operation = "customRpc", !.rpcMethod = "eth_getLogs", !.rpcParams = <<"{","}">>],
   [DefaultItem EXCEPT !.operation = "customRpc", !.rpcMethod = "eth_getLogs", !.rpcParams = <<"[","1",",","]">>],
   [DefaultItem EXCEPT !.operation = "transfer"]}

NoErrorField == ErrorValue("undefined", "", FALSE, "", "")

RpcErrorObject == ErrorValue("object", "", TRUE, "execution reverted", "-32000")

ErrorValues ==
  {NoErrorField,
   ErrorValue("null", "null", FALSE, "", ""),
   RpcErrorObject,
   ErrorValue("object", "", FALSE, "", ""),
   ErrorValue("object", "", TRUE, "", "-32601"),
   ErrorValue("string", "", FALSE, "", ""),
   ErrorValue("string", "boom", FALSE, "", ""),
   ErrorValue("number", "0", FALSE, "", ""),
   ErrorValue("boolean", "false", FALSE, "", "")}

HexResult == ResultValue("string", <<"0","x","6","4">>)

ResultValues ==
  {ResultValue("undefined", <<>>), ResultValue("null", <<>>), HexResult,
   ResultValue("string", <<"n","/","a">>), ResultValue("object", <<>>)}

\* 10^18 wei, one ether
HexWei1e18 == <<"0","x","d","e","0","b","6","b","3","a","7","6","4","0","0","0","0">>
\* 10^9 wei, one gwei
HexWei1e9 == <<"0","x","3","b","9","a","c","a","0","0">>
\* 2^53 + 1
Hex2p53p1 == <<"0","x","2","0","0","0","0","0","0","0","0","0","0","0","0","1">>
\* 2^80 - 1
Hex2p80m1 == Str0x \o Rep("f", 20)

\* results by which the shaping of a record is told apart
ShapingResults ==
  {ResultValue("string", s) :
     s \in {HexWei1e18, HexWei1e9, Hex2p53p1, Hex2p80m1, <<"0","x","0">>, <<"0","x","1","F">>,
            <<"0","x">>, <<"0","x","1","g">>, <<"1","0","0","0">>, <<>>}}

\* every outcome of a request in the single-item specification
HttpOutcomes ==
  {HttpOutcome(TRUE, FALSE, NoErrorField, ResultValue("undefined", <<>>)),
   HttpOutcome(FALSE, FALSE, NoErrorField, ResultValue("undefined", <<>>))}
  \cup {HttpOutcome(FALSE, TRUE, e, r) : e \in ErrorValues, r \in ResultValues}
  \cup {HttpOutcome(FALSE, TRUE, NoErrorField, r) : r \in ShapingResults}

\* the outcomes of a request in the batches
BatchHttpOutcomes ==
  {HttpOutcome(TRUE, FALSE, NoErrorField, ResultValue("undefined", <<>>)),
   HttpOutcome(FALSE, TRUE, NoErrorField, HexResult),
   HttpOutcome(FALSE, TRUE, NoErrorField, ResultValue("string", <<"n","/","a">>)),
   HttpOutcome(FALSE, TRUE, RpcErrorObject, ResultValue("undefined", <<>>)),
   HttpOutcome(FALSE, TRUE, ErrorValue("number", "0", FALSE, "", ""), HexResult)}

Endpoint == "https://example.quiknode.pro/token/"

\* credentials.rpcEndpoint: a string, or undefined when the credential has none
RpcEndpoints ==
  {[t |-> "string", v |-> Endpoint], [t |-> "string", v |-> ""], [t |-> "undefined", v |-> ""]}

RECURSIVE SeqsUpTo(_, _)
SeqsUpTo(S, n) ==
  IF n = 0 THEN {<<>>}
  ELSE LET shorter == SeqsUpTo(S, n - 1)
       IN  shorter \cup {Append(q, e) : q \in {r \in shorter : Len(r) = n - 1}, e \in S}

(* ------------------------------------------------------------------ *)
(* execute                                                             *)
(* ------------------------------------------------------------------ *)

VARIABLES
  items,           \* this.getInputData(), with the parameters of each item
  continueOnFail,  \* this.continueOnFail()
  credentials,     \* this.getCredentials('quicknodeApi')
  pc,              \* "start", "loop", "await", "returned", "thrown"
  i,               \* the loop variable
  returnData,      \* the records pushed so far
  pending,         \* the method and params of the request awaited
  requests,        \* every call of this.helpers.httpRequest, in order
  thrown,          \* the error execute rejected with
  log              \* for each item the loop has finished: what happened to it

vars == <<items, continueOnFail, credentials, pc, i, returnData, pending, requests, thrown, log>>

NoPending == Built("", <<>>)

InitRun ==
  /\ continueOnFail \in BOOLEAN
  /\ credentials \in {[rpcEndpoint |-> e, network |-> "ethereum-mainnet"] : e \in RpcEndpoints}
  /\ pc = "start"
  /\ i = 0
  /\ returnData = <<>>
  /\ pending = NoPending
  /\ requests = <<>>
  /\ thrown = NoError
  /\ log = <<>>

Init == items \in SeqsUpTo(BatchItems, MaxItems) /\ InitRun

InitItem == items \in {<<it>> : it \in Items} /\ InitRun

\* mutant: only a credential without an endpoint is refused, not an empty one
StartUndefinedOnly ==
  /\ pc = "start"
  /\ IF credentials.rpcEndpoint.t = "undefined"
       THEN /\ pc' = "thrown"
            /\ thrown' = [type |-> "NodeOperationError", kind |-> "config",
                          message |-> Message("RPC endpoint is required in credentials"),
                          itemIndex |-> -1]
       ELSE /\ pc' = "loop"
            /\ UNCHANGED thrown
  /\ UNCHANGED <<items, continueOnFail, credentials, i, returnData, pending, requests, log>>

\* if (!rpcEndpoint) throw new NodeOperationError(...)
Start ==
  /\ pc = "start"
  /\ IF credentials.rpcEndpoint.t = "undefined" \/ credentials.rpcEndpoint.v = ""
       THEN /\ pc' = "thrown"
            /\ thrown' = [type |-> "NodeOperationError", kind |-> "config",
                          message |-> Message("RPC endpoint is required in credentials"),
                          itemIndex |-> -1]
       ELSE /\ pc' = "loop"
            /\ UNCHANGED thrown
  /\ UNCHANGED <<items, continueOnFail, credentials, i, returnData, pending, requests, log>>

\* what is recorded of item i once the loop has finished with it
LogEntry(posted, response, error) ==
  [item |-> i, posted |-> posted, response |-> response, error |-> error]

\* mutant: a tolerated error is dropped instead of recorded
CatchDropsRecord(error, posted, response) ==
  /\ log' = Append(log, LogEntry(posted, response, error))
  /\ IF continueOnFail
       THEN /\ i' = i + 1
            /\ pc' = "loop"
            /\ UNCHANGED <<thrown, returnData>>
       ELSE /\ thrown' = error
            /\ pc' = "thrown"
            /\ UNCHANGED <<returnData, i>>

\* mutant: the batch goes on after an error in strict mode too
CatchAlwaysContinues(error, posted, response) ==
  /\ log' = Append(log, LogEntry(posted, response, error))
  /\ returnData' = Append(returnData,
                      [json |-> [error |-> error.message], pairedItem |-> [item |-> i]])
  /\ i' = i + 1
  /\ pc' = "loop"
  /\ UNCHANGED thrown

\* catch (error): push { error: message } and continue, or rethrow
Catch(error, posted, response) ==
  /\ log' = Append(log, LogEntry(posted, response, error))
  /\ IF continueOnFail
       THEN /\ returnData' = Append(returnData,
                               [json |-> [error |-> error.message], pairedItem |-> [item |-> i]])
            /\ i' = i + 1
            /\ pc' = "loop"
            /\ UNCHANGED thrown
       ELSE /\ thrown' = error
            /\ pc' = "thrown"
            /\ UNCHANGED <<returnData, i>>

\* mutant: the id counts the requests sent, not the items
PostOfRequestCount(built) ==
  [method |-> "POST", url |-> credentials.rpcEndpoint.v,
   headers |-> [ContentType |-> "application/json"],
   body |-> [jsonrpc |-> "2.0", method |-> built.method, params |-> built.params,
             id |-> Len(requests) + 1],
   json |-> TRUE]

\* the options of the call of httpRequest for item i
PostOf(built) ==
  [method |-> "POST", url |-> credentials.rpcEndpoint.v,
   headers |-> [ContentType |-> "application/json"],
   body |-> [jsonrpc |-> "2.0", method |-> built.method, params |-> built.params, id |-> i + 1],
   json |-> TRUE]

\* one iteration up to the await: the switch, then the call of httpRequest
Build ==
  /\ pc = "loop"
  /\ i < Len(items)
  /\ LET built == BuildRequest(items[i + 1], i)
     IN  IF built.ok
           THEN /\ requests' = Append(requests, PostOf(built))
                /\ pending' = built
                /\ pc' = "await"
                /\ UNCHANGED <<returnData, i, thrown, log>>
           ELSE /\ Catch(built.error, FALSE, NoHttpOutcome)
                /\ UNCHANGED <<requests, pending>>
  /\ UNCHANGED <<items, continueOnFail, credentials>>

\* the rest of the iteration, once the request has settled with response
Respond(response) ==
  /\ pc = "await"
  /\ LET error == ResponseError(items[i + 1].operation, response, i)
     IN  IF error = NoError
           THEN /\ returnData' = Append(returnData,
                     [json |-> ResultData(items[i + 1].operation, response,
                                         pending.method, credentials.network),
                      pairedItem |-> [item |-> i]])
                /\ log' = Append(log, LogEntry(TRUE, response, NoError))
                /\ i' = i + 1
                /\ pc' = "loop"
                /\ UNCHANGED thrown
           ELSE Catch(error, TRUE, response)
  /\ pending' = NoPending
  /\ UNCHANGED <<items, continueOnFail, credentials, requests>>

\* return [returnData]
Return ==
  /\ pc = "loop"
  /\ i >= Len(items)
  /\ pc' = "returned"
  /\ UNCHANGED <<items, continueOnFail, credentials, i, returnData, pending, requests, thrown, log>>

Settle == \E response \in BatchHttpOutcomes : Respond(response)

SettleItem == \E response \in HttpOutcomes : Respond(response)

Next == Start \/ Build \/ Settle \/ Return

NextItem == Start \/ Build \/ SettleItem \/ Return

\* batches of up to MaxItems items
Spec == Init /\ [][Next]_vars

\* one item, over every parameter and every response of the model
SpecItem == InitItem /\ [][NextItem]_vars

(* ------------------------------------------------------------------ *)
(* Properties of a batch                                               *)
(* ------------------------------------------------------------------ *)

EndpointGiven == credentials.rpcEndpoint.t = "string" /\ credentials.rpcEndpoint.v # ""

\* s is 0x followed by exactly n hexadecimal digits
HasShape(s, n) ==
  /\ Len(s) = n + 2
  /\ SubSeq(s, 1, 2) = <<"0","x">>
  /\ \A k \in 3..Len(s) : s[k] \in HexDigitChars

Given(v) == v \notin {Unset, <<>>}

KnownOperations ==
  {"getBalance", "getBlockNumber", "getBlock", "getTransaction", "getTransactionReceipt",
   "getTransactionCount", "getCode", "getGasPrice", "estimateGas", "call", "customRpc"}

ParamsText(item) == IF item.rpcParams = Unset THEN <<"[","]">> ELSE item.rpcParams

\* the inputs of the item fail validation
FailsValidation(item) ==
  \/ item.operation \in {"getBalance", "getTransactionCount", "getCode"}
       /\ ~HasShape(item.address, 40)
  \/ item.operation \in {"estimateGas", "call"}
       /\ (~HasShape(item.to, 40) \/ (Given(item.from) /\ ~HasShape(item.from, 40)))
  \/ item.operation \in {"getTransaction", "getTransactionReceipt"}
       /\ ~HasShape(item.txHash, 64)
  \/ item.operation = "customRpc"
       /\ (~JsonParse(ParamsText(item)).ok \/ JsonParse(ParamsText(item)).val.t # "array")
  \/ item.operation \notin KnownOperations

\* item k (from 1) has been processed and failed: at validation, by a rejected
\* request, by an RPC error, or while the response was decoded
ItemFailed(k) ==
  \/ FailsValidation(items[k])
  \/ /\ log[k].posted
     /\ \/ log[k].response.rejects
        \/ log[k].response.isObject /\ ErrorTruthy(log[k].response.error)
        \/ log[k].error.kind = "decode"

IsErrorRecord(rec, k) == rec.json = [error |-> log[k].error.message] /\ log[k].error # NoError

IsSuccessRecord(rec, k) ==
  /\ {"result", "method", "network"} \subseteq DOMAIN rec.json
  /\ rec.json.result = log[k].response.result

C2_StrictAborts ==
  (~continueOnFail /\ EndpointGiven) =>
    /\ \A k \in 1..Len(log) :
         ItemFailed(k) =>
           /\ k = Len(log)
           /\ pc = "thrown"
           /\ thrown = log[k].error /\ thrown # NoError
           /\ \A a \in 1..Len(requests) : requests[a].body.id <= k
    /\ pc = "thrown" => Len(log) >= 1 /\ ItemFailed(Len(log))
    /\ pc = "returned" => Len(log) = Len(items) /\ \A k \in 1..Len(log) : ~ItemFailed(k)

\* strict mode: the first item succeeded, the second failed, nothing is returned
C2_Witness ==
  /\ ~continueOnFail /\ pc = "thrown" /\ Len(log) = 2
  /\ ~ItemFailed(1) /\ Len(returnData) = 1 /\ ItemFailed(2)

\* C3: no request is ever issued for an item whose inputs fail validation, and
\* once processed the item has a validation error naming its index and value.
C3_ValidationBeforeNetwork ==
  \A k \in 1..Len(items) :
    FailsValidation(items[k]) =>
      /\ \A a \in 1..Len(requests) : requests[a].body.id # k
      /\ ~(pc = "await" /\ i = k - 1)
      /\ k <= Len(log) =>
           /\ ~log[k].posted
           /\ log[k].error.type = "NodeOperationError"
           /\ log[k].error.itemIndex = k - 1

\* the second item failed validation after the first was requested
C3_Witness ==
  /\ Len(items) = 2 /\ Len(log) = 2 /\ Len(requests) = 1
  /\ FailsValidation(items[2]) /\ log[2].error.kind = "validation"

\* C4: a response whose error field is neither absent nor null makes the item
\* fail with a NodeApiError, never a success record.
C4_ErrorFieldAuthoritative ==
  \A k \in 1..Len(log) :
    ( /\ log[k].posted
      /\ ~log[k].response.rejects
      /\ log[k].response.isObject
      /\ log[k].response.error.t \notin {"undefined", "null"} )
    => log[k].error.type = "NodeApiError"

\* C5: the requests are issued one at a time in the order of the items, at most
\* one per item, the request of item k (from 1) has id k and is that item's
\* request, it is only issued when the items before it are finished, so the ids
\* strictly increase.
C5_SequentialRequests ==
  /\ \A a \in 1..Len(requests) :
       LET id == requests[a].body.id
       IN  /\ id \in 1..Len(items)
           /\ id <= Len(log) + 1
           /\ id = Len(log) + 1 => pc = "await" /\ a = Len(requests) /\ i = id - 1
           /\ id <= Len(log) => log[id].posted
           /\ requests[a].body.method = BuildRequest(items[id], id - 1).method
           /\ \A b \in (a + 1)..Len(requests) : id < requests[b].body.id
  /\ \A k \in 1..Len(log) : log[k].posted => \E a \in 1..Len(requests) : requests[a].body.id = k
  /\ pc = "await" => Len(requests) >= 1 /\ requests[Len(requests)].body.id = i + 1

\* the only request of the batch is that of the second item, with id 2
C5_Witness ==
  /\ Len(items) = 2 /\ FailsValidation(items[1])
  /\ Len(requests) = 1 /\ requests[1].body.id = 2

(* ------------------------------------------------------------------ *)
(* Properties of the request of an item                                *)
(* ------------------------------------------------------------------ *)

\* the code is past the switch for item k (from 1)
PastSwitch(k) == k <= Len(log) \/ (pc = "await" /\ i = k - 1)

\* a request with id k has been issued; BodyOf(k) is its body
HasRequest(k) == \E a \in 1..Len(requests) : requests[a].body.id = k

TheRequest(k) == (CHOOSE a \in 1..Len(requests) : requests[a].body.id = k)

BodyOf(k) == requests[TheRequest(k)].body

AddressMethod(op) ==
  CASE op = "getBalance" -> "eth_getBalance"
    [] op = "getTransactionCount" -> "eth_getTransactionCount"
    [] op = "getCode" -> "eth_getCode"

\* C6: for GetBalance, GetTransactionCount and GetCode with an address of the
\* valid shape a request is sent, with the method of the operation and params
\* [address, toBlockTag(block)]: the address unchanged, block "100" as "0x64",
\* an unset block as "latest".
C6_AddressRequests ==
  \A k \in 1..Len(items) :
    LET it == items[k]
    IN  ( /\ it.operation \in {"getBalance", "getTransactionCount", "getCode"}
          /\ HasShape(it.address, 40)
          /\ PastSwitch(k) )
        => /\ HasRequest(k)
           /\ BodyOf(k).method = AddressMethod(it.operation)
           /\ Len(BodyOf(k).params) = 2
           /\ BodyOf(k).params[1] = it.address
           /\ BodyOf(k).params[2] = toBlockTag(IF it.block = Unset THEN Latest ELSE it.block)
           /\ it.block = Dec100 => BodyOf(k).params[2] = <<"0","x","6","4">>
           /\ it.block = Unset => BodyOf(k).params[2] = Latest
           /\ it.block = <<"0","0","7">> => BodyOf(k).params[2] = <<"0","x","7">>

\* GetBalance of a mixed-case address at block "100" has been requested
C6_Witness ==
  /\ Len(items) = 1 /\ items[1].operation = "getBalance"
  /\ items[1].address = ValidAddress /\ items[1].block = Dec100
  /\ Len(requests) = 1
  /\ requests[1].body.method = "eth_getBalance"
  /\ requests[1].body.params = <<ValidAddress, <<"0","x","6","4">> >>

ExactHex(s) ==
  LET b == ToBits(DecValue(<<>>, s))
  IN  IF b = <<>> THEN <<"0">> ELSE HexOfBits(b)

\* the block tag as the claim states it
NormalizedBlock(s) ==
  IF s \in {Latest, Earliest, Pending, Safe, Finalized} THEN s
  ELSE IF s # <<>> /\ \A k \in 1..Len(s) : s[k] \in DecDigitChars THEN <<"0","x">> \o ExactHex(s)
  ELSE s

\* C8: toBlockTag returns a symbolic tag unchanged, a string of decimal digits
\* as 0x and the hexadecimal digits of its value, and anything else unchanged
\* (read off the block parameter of the requests that carry one).
C8_BlockTagExact ==
  \A k \in 1..Len(items) :
    ( /\ items[k].operation \in {"getBalance", "getTransactionCount", "getCode"}
      /\ items[k].block # Unset
      /\ HasRequest(k) )
    => BodyOf(k).params[2] = NormalizedBlock(items[k].block)

\* the value is zero in one of its spellings
ZeroValue(v) ==
  \/ ~Given(v)
  \/ (\A k \in 1..Len(v) : v[k] = "0")
  \/ (StartsWith(v, <<"0","x">>) /\ Len(v) > 2 /\ \A k \in 3..Len(v) : v[k] = "0")

\* C9: the txObject of eth_estimateGas holds to always, from and data only if
\* non-empty, and value only if the value supplied is not zero; a value is
\* sent unchanged when it starts with 0x and as 0x and its hexadecimal digits
\* when it is decimal.
C9_EstimateGasTxObject ==
  \A k \in 1..Len(items) :
    LET it == items[k]
    IN  (it.operation = "estimateGas" /\ HasShape(it.to, 40) /\ HasRequest(k))
        => LET tx == BodyOf(k).params[1]
           IN  /\ BodyOf(k).method = "eth_estimateGas"
               /\ Len(BodyOf(k).params) = 1
               /\ DOMAIN tx = {"to"} \cup (IF Given(it.from) THEN {"from"} ELSE {})
                                     \cup (IF Given(it.data) THEN {"data"} ELSE {})
                                     \cup (IF ZeroValue(it.value) THEN {} ELSE {"value"})
               /\ tx["to"] = it.to
               /\ "value" \in DOMAIN tx =>
                    tx["value"] = IF StartsWith(it.value, <<"0","x">>) THEN it.value
                                  ELSE <<"0","x">> \o ExactHex(it.value)

EmptyArrayText == <<"[","]">>

TwoParamsText == <<"[","\"","0","x","1","\"",","," ","t","r","u","e","]">>

\* the parameter texts of the model that are JSON arrays, with their values
ArrayTexts == {EmptyArrayText, ParamsGetLogs, TwoParamsText}

ArrayOf(text) ==
  CASE text = EmptyArrayText -> <<>>
    [] text = ParamsGetLogs ->
         << [t |-> "object",
             v |-> << << <<"f","r","o","m","B","l","o","c","k">>,
                         [t |-> "string", v |-> Latest] >> >>] >>
    [] text = TwoParamsText ->
         << [t |-> "string", v |-> <<"0","x","1">>], [t |-> "true", v |-> <<>>] >>

\* C10: a CustomRpc item whose parameter text is a JSON array is requested
\* with the caller's method unchanged and the parsed array as params; any
\* other text (no JSON, or a JSON value that is no array) fails the item with
\* an "Invalid JSON parameters" error naming the cause, and sends no request.
C10_CustomRpcParams ==
  \A k \in 1..Len(items) :
    LET it   == items[k]
        text == ParamsText(it)
    IN  (it.operation = "customRpc" /\ PastSwitch(k))
        => /\ text \in ArrayTexts <=> (JsonParse(text).ok /\ JsonParse(text).val.t = "array")
           /\ IF text \in ArrayTexts
                THEN /\ HasRequest(k)
                     /\ BodyOf(k).method = it.rpcMethod
                     /\ BodyOf(k).params = ArrayOf(text)
                ELSE /\ ~HasRequest(k)
                     /\ k <= Len(log) =>
                          /\ log[k].error.type = "NodeOperationError"
                          /\ log[k].error.message.text = "Invalid JSON parameters: "
                          /\ log[k].error.message.tail # ""
                          /\ log[k].error.itemIndex = k - 1

\* eth_getLogs with [{"fromBlock":"latest"}] has been requested
C10_Witness ==
  /\ Len(items) = 1 /\ items[1].operation = "customRpc"
  /\ items[1].rpcMethod = "eth_getLogs" /\ items[1].rpcParams = ParamsGetLogs
  /\ Len(requests) = 1
  /\ requests[1].body.method = "eth_getLogs"
  /\ Len(requests[1].body.params) = 1
  /\ requests[1].body.params[1].t = "object"

(* ------------------------------------------------------------------ *)
(* The shape of a success record                                       *)
(* ------------------------------------------------------------------ *)

BaseFields == {"result", "method", "network"}

\* the derived fields of an operation
DerivedFields(op) ==
  CASE op = "getBalance" -> {"balanceWei", "balanceEth"}
    [] op = "getGasPrice" -> {"gasPriceWei", "gasPriceGwei"}
    [] op = "getBlockNumber" -> {"blockNumberDecimal"}
    [] op = "getTransactionCount" -> {"transactionCountDecimal"}
    [] op = "estimateGas" -> {"gasEstimateDecimal"}
    [] OTHER -> {}

\* record k (from 1) is a success record
IsSuccess(k) == k <= Len(returnData) /\ "result" \in DOMAIN returnData[k].json

\* the result is 0x followed by hexadecimal digits
IsHexResult(r) == r.t = "string" /\ IsPrefixed(r.v, {"x"}, HexDigitChars)

\* the Number that is the integer of these bits
IntegerOf(bits) == [nan |-> FALSE, neg |-> FALSE, bits |-> bits]

\* the decimal digits of the integer the result spells
ExpectedWei(s) ==
  CASE s = HexWei1e18 ->
         <<"1","0","0","0","0","0","0","0","0","0","0","0","0","0","0","0","0","0","0">>
    [] s = HexWei1e9 ->
         <<"1","0","0","0","0","0","0","0","0","0">>
    [] s = Hex2p53p1 ->
         <<"9","0","0","7","1","9","9","2","5","4","7","4","0","9","9","3">>
    [] s = Hex2p80m1 ->
         <<"1","2","0","8","9","2","5","8","1","9","6","1","4","6","2","9","1","7","4","7","0","6","1","7","5">>
    [] s = <<"0","x","0">> ->
         <<"0">>
    [] s = <<"0","x","1","F">> ->
         <<"3","1">>
    [] s = <<"1","0","0","0">> ->
         <<"1","0","0","0">>
    [] s = HexResult.v ->
         <<"1","0","0">>

\* (Number(wei) / 1e18).toFixed(18): reference values
ExpectedEth(s) ==
  CASE s = HexWei1e18 ->
         <<"1",".","0","0","0","0","0","0","0","0","0","0","0","0","0","0","0","0","0","0">>
    [] s = HexWei1e9 ->
         <<"0",".","0","0","0","0","0","0","0","0","1","0","0","0","0","0","0","0","0","0">>
    [] s = Hex2p53p1 ->
         <<"0",".","0","0","9","0","0","7","1","9","9","2","5","4","7","4","0","9","9","3">>
    [] s = Hex2p80m1 ->
         <<"1","2","0","8","9","2","5",".","8","1","9","6","1","4","6","2","9","2","6","1","1","9","5","6","6","0">>
    [] s = <<"0","x","0">> ->
         <<"0",".","0","0","0","0","0","0","0","0","0","0","0","0","0","0","0","0","0","0">>
    [] s = <<"0","x","1","F">> ->
         <<"0",".","0","0","0","0","0","0","0","0","0","0","0","0","0","0","0","0","3","1">>
    [] s = <<"1","0","0","0">> ->
         <<"0",".","0","0","0","0","0","0","0","0","0","0","0","0","0","0","1","0","0","0">>
    [] s = HexResult.v ->
         <<"0",".","0","0","0","0","0","0","0","0","0","0","0","0","0","0","0","1","0","0">>

\* (Number(wei) / 1e9).toFixed(9): reference values
ExpectedGwei(s) ==
  CASE s = HexWei1e18 ->
         <<"1","0","0","0","0","0","0","0","0","0",".","0","0","0","0","0","0","0","0","0">>
    [] s = HexWei1e9 ->
         <<"1",".","0","0","0","0","0","0","0","0","0">>
    [] s = Hex2p53p1 ->
         <<"9","0","0","7","1","9","9",".","2","5","4","7","4","0","9","9","3">>
    [] s = Hex2p80m1 ->
         <<"1","2","0","8","9","2","5","8","1","9","6","1","4","6","2","9",".","2","5","0","0","0","0","0","0","0">>
    [] s = <<"0","x","0">> ->
         <<"0",".","0","0","0","0","0","0","0","0","0">>
    [] s = <<"0","x","1","F">> ->
         <<"0",".","0","0","0","0","0","0","0","3","1">>
    [] s = <<"1","0","0","0">> ->
         <<"0",".","0","0","0","0","0","1","0","0","0">>
    [] s = HexResult.v ->
         <<"0",".","0","0","0","0","0","0","1","0","0">>

\* parseInt(result, 16): reference values.  2^53 + 1 and 2^80 - 1 are no
\* Numbers: the nearest ones are 2^53 and 2^80.
ExpectedParsed(r) ==
  IF r.t # "string" THEN NotANumber
  ELSE CASE r.v = HexResult.v -> IntegerOf(<<1,1,0,0,1,0,0>>)
         [] r.v = HexWei1e18 -> IntegerOf(HexToBits(Drop(HexWei1e18, 2)))
         [] r.v = HexWei1e9 -> IntegerOf(HexToBits(Drop(HexWei1e9, 2)))
         [] r.v = Hex2p53p1 -> IntegerOf(<<1>> \o Rep(0, 53))
         [] r.v = Hex2p80m1 -> IntegerOf(<<1>> \o Rep(0, 80))
         [] r.v = <<"0","x","0">> -> IntegerOf(<<>>)
         [] r.v = <<"0","x","1","F">> -> IntegerOf(<<1,1,1,1,1>>)
         [] r.v = <<"0","x","1","g">> -> IntegerOf(<<1>>)
         [] r.v = <<"1","0","0","0">> -> IntegerOf(<<1>> \o Rep(0, 12))
         [] r.v = <<"0","x">> -> NotANumber
         [] r.v = <<"n","/","a">> -> NotANumber

\* what every success record carries: the raw result, the method of the
\* request sent for the item, the label of the credential, which is no part
\* of that request
CarriesBase(k) ==
  /\ returnData[k].json.result = log[k].response.result
  /\ HasRequest(k)
  /\ returnData[k].json.method = BodyOf(k).method
  /\ returnData[k].json.network = credentials.network
  /\ DOMAIN requests[TheRequest(k)] = {"method", "url", "headers", "body", "json"}
  /\ DOMAIN BodyOf(k) = {"jsonrpc", "method", "params", "id"}
  /\ requests[TheRequest(k)].url = credentials.rpcEndpoint.v

\* C11 as stated: every success record carries result, method and network,
\* the network being no part of the request, and its derived fields depend
\* only on the operation: the wei fields are the decimal digits of the
\* integer of the hex result, the Decimal fields are that integer.
C11_DerivedByOperation ==
  \A k \in 1..Len(returnData) :
    IsSuccess(k) =>
      LET json == returnData[k].json
          op   == items[k].operation
          r    == json.result
          int  == IntegerOf(HexToBits(Drop(r.v, 2)))
      IN  /\ CarriesBase(k)
          /\ DOMAIN json = BaseFields \cup DerivedFields(op)
          /\ IsHexResult(r) =>
                /\ op = "getBalance" => json.balanceWei = ExpectedWei(r.v)
                /\ op = "getGasPrice" => json.gasPriceWei = ExpectedWei(r.v)
                /\ op = "getBlockNumber" => json.blockNumberDecimal = int
                /\ op = "getTransactionCount" => json.transactionCountDecimal = int
                /\ op = "estimateGas" => json.gasEstimateDecimal = int

\* C11 amended: every success record carries result, method and network, the
\* network being no part of the request.  Derived fields are added only when
\* the result is truthy, and then by the operation alone: GetBalance and
\* GetGasPrice add the decimal digits of BigInt(result) and that integer as a
\* Number divided by 10^18 or 10^9 and written with 18 or 9 fractional
\* digits; GetBlockNumber, GetTransactionCount and EstimateGas add
\* parseInt(result, 16), a Number: the integer of the hex result up to 2^53,
\* the nearest Number above, NaN when no hex digit follows the prefix.  The
\* other operations add nothing, CustomRpc whatever its method.
C11_ShapedWhenTruthy ==
  \A k \in 1..Len(returnData) :
    IsSuccess(k) =>
      LET json   == returnData[k].json
          op     == items[k].operation
          r      == json.result
          truthy == ResultTruthy(r)
      IN  /\ CarriesBase(k)
          /\ DOMAIN json = BaseFields \cup (IF truthy THEN DerivedFields(op) ELSE {})
          /\ (op = "getBalance" /\ truthy) =>
                /\ r.t = "string"
                /\ json.balanceWei = ExpectedWei(r.v)
                /\ json.balanceEth = ExpectedEth(r.v)
          /\ (op = "getGasPrice" /\ truthy) =>
                /\ r.t = "string"
                /\ json.gasPriceWei = ExpectedWei(r.v)
                /\ json.gasPriceGwei = ExpectedGwei(r.v)
          /\ (op = "getBlockNumber" /\ truthy) => json.blockNumberDecimal = ExpectedParsed(r)
          /\ (op = "getTransactionCount" /\ truthy) =>
                json.transactionCountDecimal = ExpectedParsed(r)
          /\ (op = "estimateGas" /\ truthy) => json.gasEstimateDecimal = ExpectedParsed(r)

\* GetBalance answered with 0xde0b6b3a7640000: one ether
C11_Witness ==
  /\ Len(items) = 1 /\ items[1].operation = "getBalance"
  /\ IsSuccess(1)
  /\ returnData[1].json.result = ResultValue("string", HexWei1e18)
  /\ returnData[1].json.balanceWei = <<"1">> \o Rep("0", 18)
  /\ returnData[1].json.balanceEth = <<"1", ".">> \o Rep("0", 18)

(* ------------------------------------------------------------------ *)
(* The credential without an endpoint                                  *)
(* ------------------------------------------------------------------ *)

\* C12: when the rpcEndpoint of the credential is missing or empty, execute
\* either has not started or has thrown the configuration error, in tolerant
\* mode too and for every batch, the empty one included: no item has been
\* processed, no request was issued, no record was pushed, nothing is returned.
C12_EndpointRequired ==
  ~EndpointGiven =>
    /\ pc \in {"start", "thrown"}
    /\ i = 0
    /\ requests = <<>>
    /\ returnData = <<>>
    /\ log = <<>>
    /\ pending = NoPending
    /\ pc = "thrown" =>
         /\ thrown.type = "NodeOperationError"
         /\ thrown.kind = "config"
         /\ thrown.message = Message("RPC endpoint is required in credentials")
         /\ thrown.itemIndex = -1
    /\ pc = "start" => thrown = NoError

\* a tolerant run over two items has thrown on the empty endpoint
C12_Witness ==
  /\ continueOnFail
  /\ credentials.rpcEndpoint = [t |-> "string", v |-> ""]
  /\ Len(items) = 2
  /\ pc = "thrown"
  /\ thrown.kind = "config"
  /\ returnData = <<>> /\ requests = <<>>
====
